---- MODULE Spec2Model ----
(***************************************************************************)
(* A model of the casbin Prometheus logger: the PrometheusLogger recorder, *)
(* its event-type filter, the before/after hooks, the label projection of  *)
(* enforce events and the six metric families it updates.                  *)
(***************************************************************************)
EXTENDS Integers, Sequences, FiniteSets, TLC

VARIABLES
    options,            \* the options the recorder was constructed with
    enabledEventTypes,  \* PrometheusLogger.enabledEventTypes (keys mapped to true)
    callback,           \* PrometheusLogger.callback
    enforceLabels,      \* PrometheusLogger.enforceLabels
    enforceDuration,    \* HistogramVec casbin_enforce_duration_seconds
    enforceTotal,       \* CounterVec   casbin_enforce_total
    policyOpsTotal,     \* CounterVec   casbin_policy_operations_total
    policyOpsDuration,  \* HistogramVec casbin_policy_operations_duration_seconds
    policyRulesCount,   \* GaugeVec     casbin_policy_rules_count
    policyStateCount,   \* GaugeVec     casbin_policy_state_count
    entry,              \* the LogEntry the caller currently holds
    now,                \* the last reading of time.Now()
    last,               \* the last call on the recorder: operation, arguments, result
    admitted,           \* decision of the last OnBeforeEvent on entry ("none" if not run)
    lastRuleCount,      \* per operation, the RuleCount > 0 recorded most recently
    constructed,        \* FALSE when the constructor panicked: no recorder exists
    events,             \* number of metric-recording calls made so far
    workload,           \* the family of callers driving the recorder in this run
    done,               \* OnAfterEvent has run on entry
    kept,               \* the envelopes the caller keeps after recording them
    lastCount,          \* per ptype, the count of the last UpdatePolicyState
    registries,         \* the default registry and the caller's own registry
    setting,            \* the SetEventTypes call in progress on another goroutine
    deciding,           \* the OnBeforeEvent call in progress on entry
    running,            \* per goroutine, the OnAfterEvent call it is running
    recorded,           \* the entries recorded so far as they were passed, in order
    own,                \* per registry, the names registered by the recorder held
    target,             \* the registry the recorder held was built on
    peer                \* the recorder built before the one held, which the caller keeps

vars == <<options, enabledEventTypes, callback, enforceLabels, enforceDuration,
          enforceTotal, policyOpsTotal, policyOpsDuration, policyRulesCount,
          policyStateCount, entry, now, last, admitted, lastRuleCount,
          constructed, events, workload, done, kept, lastCount, registries,
          setting, deciding, running, recorded, own, target,
          peer>>

\* the state of calls that run statement by statement
stepVars == <<setting, deciding, running>>

metricVars == <<enforceDuration, enforceTotal, policyOpsTotal, policyOpsDuration,
                policyRulesCount, policyStateCount>>

-----------------------------------------------------------------------------
(* Bounds of the model *)

\* longest EnforceLabels list passed to the constructor
MaxLabels == 2
\* longest list passed to SetEventTypes
MaxTypes == 2
\* largest clock reading
MaxTime == 2
\* largest RuleCount of an entry and largest count of UpdatePolicyState
MaxCount == 2
\* number of metric-recording calls (active OnAfterEvent, UpdatePolicyState) in a run
MaxEvents == 2

-----------------------------------------------------------------------------
(* Event types and log entries *)

EventEnforce == "enforce"
EventAddPolicy == "addPolicy"
EventRemovePolicy == "removePolicy"
EventLoadPolicy == "loadPolicy"
EventSavePolicy == "savePolicy"
\* EventType is a string type: a value outside the five constants
EventCustom == "custom"

EventTypes == {EventEnforce, EventAddPolicy, EventRemovePolicy, EventLoadPolicy,
               EventSavePolicy, EventCustom}

PolicyEventTypes == {EventAddPolicy, EventRemovePolicy, EventLoadPolicy, EventSavePolicy}

Subjects == {"", "alice"}
Objects == {"", "data1"}
Actions == {"", "read"}
Domains == {"", "domain1"}
Errors == {"nil", "test error"}

Range(seq) == {seq[i] : i \in 1..Len(seq)}

\* the largest Duration, on the scale of the model's clock
MaxDuration == MaxTime + 1

\* the zero value of time.Time, further in the past than a Duration can span
ZeroTime == 0 - (MaxDuration + 1)

\* Time.Sub: the difference, or the largest or smallest Duration when the
\* difference does not fit
Sub(t, u) ==
    IF t - u > MaxDuration THEN MaxDuration
    ELSE IF t - u < 0 - MaxDuration THEN 0 - MaxDuration
    ELSE t - u

-----------------------------------------------------------------------------
(* Construction *)

EnforceLabelSubject == "subject"
EnforceLabelObject == "object"
EnforceLabelAction == "action"

LabelInputs == {EnforceLabelSubject, EnforceLabelObject, EnforceLabelAction,
                "invalid_label"}

RECURSIVE SeqsUpTo(_, _)
SeqsUpTo(S, n) ==
    IF n = 0 THEN {<<>>}
    ELSE LET shorter == SeqsUpTo(S, n - 1)
         IN  shorter \cup {Append(s, x) : s \in shorter, x \in S}

\* options == nil, or &PrometheusLoggerOptions{EnforceLabels: ...}
PrometheusLoggerOptions ==
    {[isNil |-> TRUE, EnforceLabels |-> <<>>]} \cup
    {[isNil |-> FALSE, EnforceLabels |-> s] : s \in SeqsUpTo(LabelInputs, MaxLabels)}

\* mutant: every name of the list is appended
AppendAll(labels, rest) == labels \o rest

\* the loop of lines 67-72: append the recognised names to {"allowed", "domain"}
RECURSIVE AppendRecognised(_, _)
AppendRecognised(labels, rest) ==
    IF rest = <<>> THEN labels
    ELSE LET label == Head(rest)
         IN  IF label = "subject" \/ label = "object" \/ label = "action"
             THEN AppendRecognised(Append(labels, label), Tail(rest))
             ELSE AppendRecognised(labels, Tail(rest))

BuildEnforceLabels(opts) ==
    LET o == IF opts.isNil THEN [isNil |-> FALSE, EnforceLabels |-> <<>>] ELSE opts
    IN  AppendRecognised(<<"allowed", "domain">>, o.EnforceLabels)

-----------------------------------------------------------------------------
(* Registration: a registry holds the families registered on it by name, and
   remembers the label names of every name it has ever held *)

\* prometheus rejects a descriptor whose label names repeat; MustRegister panics on it
ValidLabelNames(labels) ==
    \A i, j \in 1..Len(labels) : labels[i] = labels[j] => i = j

RegistryIds == {"default", "custom"}

\* prometheus.NewRegistry()
EmptyRegistry == [collectorsByID |-> {}, dimHashesByName |-> <<>>]

\* the six families of a recorder, in the order of registration
Collectors(labels) ==
    << [fqName |-> "casbin_enforce_duration_seconds", variableLabels |-> labels],
       [fqName |-> "casbin_enforce_total", variableLabels |-> labels],
       [fqName |-> "casbin_policy_operations_total",
        variableLabels |-> <<"operation", "success">>],
       [fqName |-> "casbin_policy_operations_duration_seconds",
        variableLabels |-> <<"operation">>],
       [fqName |-> "casbin_policy_rules_count", variableLabels |-> <<"operation">>],
       [fqName |-> "casbin_policy_state_count", variableLabels |-> <<"ptype">>] >>

FamilyNames == {c.fqName : c \in Range(Collectors(<<>>))}

\* mutant: a name that is registered is registered again
RegistryRegisterAgain(r, c) ==
    IF ~ValidLabelNames(c.variableLabels)
    THEN [err |-> TRUE, registry |-> r]
    ELSE [err |-> FALSE,
          registry |-> [collectorsByID |-> r.collectorsByID \cup {c.fqName},
                        dimHashesByName |->
                            (c.fqName :> Range(c.variableLabels)) @@
                            r.dimHashesByName]]

\* Registry.Register: refused for an invalid descriptor, for a name that is
\* registered, and for a name the registry has held with other label names
RegistryRegister(r, c) ==
    LET invalid == ~ValidLabelNames(c.variableLabels)
        duplicate == c.fqName \in r.collectorsByID
        inconsistent == /\ c.fqName \in DOMAIN r.dimHashesByName
                        /\ r.dimHashesByName[c.fqName] # Range(c.variableLabels)
    IN  IF invalid \/ duplicate \/ inconsistent
        THEN [err |-> TRUE, registry |-> r]
        ELSE [err |-> FALSE,
              registry |-> [collectorsByID |-> r.collectorsByID \cup {c.fqName},
                            dimHashesByName |->
                                (c.fqName :> Range(c.variableLabels)) @@
                                r.dimHashesByName]]

\* Registry.MustRegister: registers the collectors in turn, panics at the first
\* that is refused
RECURSIVE MustRegister(_, _)
MustRegister(r, cs) ==
    IF cs = <<>> THEN [panicked |-> FALSE, registry |-> r]
    ELSE LET x == RegistryRegister(r, Head(cs))
         IN  IF x.err THEN [panicked |-> TRUE, registry |-> x.registry]
             ELSE MustRegister(x.registry, Tail(cs))

\* mutant: the family is reported removed and stays registered
RegistryUnregisterKeeps(r, c) ==
    [ok |-> c.fqName \in r.collectorsByID, registry |-> r]

\* Registry.Unregister: the names a registry has held stay remembered
RegistryUnregister(r, c) ==
    IF c.fqName \in r.collectorsByID
    THEN [ok |-> TRUE, registry |-> [r EXCEPT !.collectorsByID = @ \ {c.fqName}]]
    ELSE [ok |-> FALSE, registry |-> r]

\* mutant: the first family that was not registered ends the removal
RECURSIVE UnregisterUntilFailure(_, _)
UnregisterUntilFailure(r, cs) ==
    IF cs = <<>> THEN [result |-> TRUE, registry |-> r]
    ELSE LET x == RegistryUnregister(r, Head(cs))
         IN  IF ~x.ok THEN [result |-> FALSE, registry |-> x.registry]
             ELSE UnregisterUntilFailure(x.registry, Tail(cs))

\* mutant: the result is true when any of the removals returned true
RECURSIVE UnregisterAllAnySuccess(_, _)
UnregisterAllAnySuccess(r, cs) ==
    IF cs = <<>> THEN [result |-> FALSE, registry |-> r]
    ELSE LET x == RegistryUnregister(r, Head(cs))
             rest == UnregisterAllAnySuccess(x.registry, Tail(cs))
         IN  [result |-> x.ok \/ rest.result, registry |-> rest.registry]

\* the six statements of UnregisterFrom, lines 269-274: each family is removed
\* in turn, and the result is true when every removal returned true
RECURSIVE UnregisterAll(_, _)
UnregisterAll(r, cs) ==
    IF cs = <<>> THEN [result |-> TRUE, registry |-> r]
    ELSE LET x == RegistryUnregister(r, Head(cs))
             rest == UnregisterAll(x.registry, Tail(cs))
         IN  [result |-> x.ok /\ rest.result, registry |-> rest.registry]

\* the constructor called with registry r and options opts: the label list,
\* whether registration panicked, and the registry it leaves
Construction(r, opts) ==
    LET labels == BuildEnforceLabels(opts)
        x == MustRegister(r, Collectors(labels))
    IN  [enforceLabels |-> labels, panicked |-> x.panicked, registry |-> x.registry]

-----------------------------------------------------------------------------
(* Metric vectors: a function from the label vectors that have a series to
   the value of the series *)

EmptyVec == <<>>

\* CounterVec/HistogramVec/GaugeVec.WithLabelValues: get or create the series
WithLabelValues(vec, lv, zero) ==
    IF lv \in DOMAIN vec THEN vec ELSE vec @@ (lv :> zero)

\* mutant: an increment that finds the series incremented already is lost
IncLost(vec, lv) ==
    LET v == WithLabelValues(vec, lv, 0)
    IN  [v EXCEPT ![lv] = 1]

\* Counter.Inc
Inc(vec, lv) ==
    LET v == WithLabelValues(vec, lv, 0)
    IN  [v EXCEPT ![lv] = @ + 1]

\* mutant: the sum of a histogram series is the value observed last
ObserveLast(vec, lv, x) ==
    LET v == WithLabelValues(vec, lv, [count |-> 0, sum |-> 0])
    IN  [v EXCEPT ![lv] = [count |-> @.count + 1, sum |-> x]]

\* Histogram.Observe: one more observation, added to the sum
Observe(vec, lv, x) ==
    LET v == WithLabelValues(vec, lv, [count |-> 0, sum |-> 0])
    IN  [v EXCEPT ![lv] = [count |-> @.count + 1, sum |-> @.sum + x]]

\* mutant: Gauge.Add in place of Gauge.Set
SetAdd(vec, lv, x) ==
    LET v == IF lv \in DOMAIN vec THEN vec ELSE vec @@ (lv :> 0)
    IN  [v EXCEPT ![lv] = @ + x]

\* Gauge.Set
Set(vec, lv, x) ==
    LET v == WithLabelValues(vec, lv, 0)
    IN  [v EXCEPT ![lv] = x]

\* the label vectors whose series was created or changed between two vectors
Changed(old, new) ==
    {lv \in DOMAIN new : lv \notin DOMAIN old \/ new[lv] # old[lv]}

Metrics == [enforceDuration |-> enforceDuration, enforceTotal |-> enforceTotal,
            policyOpsTotal |-> policyOpsTotal, policyOpsDuration |-> policyOpsDuration,
            policyRulesCount |-> policyRulesCount, policyStateCount |-> policyStateCount]

-----------------------------------------------------------------------------
(* Recording *)

\* mutant: the domain is projected verbatim, the empty string included
RECURSIVE ProjectLabelsVerbatim(_, _)
ProjectLabelsVerbatim(labels, e) ==
    IF labels = <<>> THEN <<>>
    ELSE LET label == Head(labels)
             allowed == IF e.Allowed THEN "true" ELSE "false"
             value == CASE label = "allowed" -> allowed
                        [] label = "domain" -> e.Domain
                        [] label = "subject" -> e.Subject
                        [] label = "object" -> e.Object
                        [] label = "action" -> e.Action
                        [] OTHER -> ""
         IN  <<value>> \o ProjectLabelsVerbatim(Tail(labels), e)

\* mutant: the subject label is left at the zero value of the slice
RECURSIVE ProjectLabelsBlankSubject(_, _)
ProjectLabelsBlankSubject(labels, e) ==
    IF labels = <<>> THEN <<>>
    ELSE LET label == Head(labels)
             domain == IF e.Domain = "" THEN "default" ELSE e.Domain
             allowed == IF e.Allowed THEN "true" ELSE "false"
             value == CASE label = "allowed" -> allowed
                        [] label = "domain" -> domain
                        [] label = "object" -> e.Object
                        [] label = "action" -> e.Action
                        [] OTHER -> ""
         IN  <<value>> \o ProjectLabelsBlankSubject(Tail(labels), e)

\* lines 201-226: the label values of an entry, aligned with the label names
RECURSIVE ProjectLabels(_, _)
ProjectLabels(labels, e) ==
    IF labels = <<>> THEN <<>>
    ELSE LET label == Head(labels)
             domain == IF e.Domain = "" THEN "default" ELSE e.Domain
             allowed == IF e.Allowed THEN "true" ELSE "false"
             value == CASE label = "allowed" -> allowed
                        [] label = "domain" -> domain
                        [] label = "subject" -> e.Subject
                        [] label = "object" -> e.Object
                        [] label = "action" -> e.Action
                        [] OTHER -> ""
         IN  <<value>> \o ProjectLabels(Tail(labels), e)

\* mutant: the duration is not observed
recordEnforceMetricsNoObserve(m, labels, e) ==
    [m EXCEPT !.enforceTotal = Inc(@, ProjectLabels(labels, e))]

\* recordEnforceMetrics: the metrics after recording entry e on metrics m
recordEnforceMetrics(m, labels, e) ==
    LET labelValues == ProjectLabels(labels, e)
    IN  [m EXCEPT !.enforceDuration = Observe(@, labelValues, e.Duration),
                  !.enforceTotal = Inc(@, labelValues)]

\* mutant: a failed operation is not recorded
recordPolicyMetricsDropFailed(m, e) ==
    IF e.Error # "nil" THEN m
    ELSE LET m1 == [m EXCEPT !.policyOpsTotal = Inc(@, <<e.EventType, "true">>),
                             !.policyOpsDuration = Observe(@, <<e.EventType>>, e.Duration)]
         IN  IF e.RuleCount > 0
             THEN [m1 EXCEPT !.policyRulesCount = Set(@, <<e.EventType>>, e.RuleCount)]
             ELSE m1

\* mutant: the rule-count gauge is set whatever the RuleCount
recordPolicyMetricsAlwaysSet(m, e) ==
    LET operation == e.EventType
        success == IF e.Error # "nil" THEN "false" ELSE "true"
    IN  [m EXCEPT !.policyOpsTotal = Inc(@, <<operation, success>>),
                  !.policyOpsDuration = Observe(@, <<operation>>, e.Duration),
                  !.policyRulesCount = Set(@, <<operation>>, e.RuleCount)]

\* mutant: a policy operation moves the policy-state gauge of ptype "p"
recordPolicyMetricsSyncState(m, e) ==
    LET operation == e.EventType
        success == IF e.Error # "nil" THEN "false" ELSE "true"
        m1 == [m EXCEPT !.policyOpsTotal = Inc(@, <<operation, success>>),
                        !.policyOpsDuration = Observe(@, <<operation>>, e.Duration),
                        !.policyStateCount = SetAdd(@, <<"p">>, e.RuleCount)]
    IN  IF e.RuleCount > 0
        THEN [m1 EXCEPT !.policyRulesCount = Set(@, <<operation>>, e.RuleCount)]
        ELSE m1

\* recordPolicyMetrics: the metrics after recording entry e on metrics m
recordPolicyMetrics(m, e) ==
    LET operation == e.EventType
        success == IF e.Error # "nil" THEN "false" ELSE "true"
        m1 == [m EXCEPT !.policyOpsTotal = Inc(@, <<operation, success>>),
                        !.policyOpsDuration = Observe(@, <<operation>>, e.Duration)]
    IN  IF e.RuleCount > 0
        THEN [m1 EXCEPT !.policyRulesCount = Set(@, <<operation>>, e.RuleCount)]
        ELSE m1

\* mutant: an event type that is not enforce is recorded as a policy operation
recordMetricsDefaultPolicy(m, labels, e) ==
    CASE e.EventType = EventEnforce -> recordEnforceMetrics(m, labels, e)
      [] OTHER -> recordPolicyMetrics(m, e)

\* mutant: an enforce event is counted as a policy operation as well
recordMetricsEnforceAsPolicy(m, labels, e) ==
    CASE e.EventType = EventEnforce ->
           recordPolicyMetrics(recordEnforceMetrics(m, labels, e), e)
      [] e.EventType \in PolicyEventTypes -> recordPolicyMetrics(m, e)
      [] OTHER -> m

\* the switch of OnAfterEvent, lines 178-183
recordMetrics(m, labels, e) ==
    CASE e.EventType = EventEnforce -> recordEnforceMetrics(m, labels, e)
      [] e.EventType \in PolicyEventTypes -> recordPolicyMetrics(m, e)
      [] OTHER -> m

-----------------------------------------------------------------------------
(* The callers: each workload varies the inputs of one concern of the
   recorder and holds the other inputs at one representative value *)

NoCallback == "no callback"
\* a callback is identified by the error it returns ("nil" for none)
CallbackResults == {"nil", "callback error", "other error"}
Callbacks == {NoCallback} \cup CallbackResults

Workloads == {"filter", "callback", "policy", "rules", "enforce", "labels",
              "projection", "series", "state", "lifecycle", "duration",
              "race", "commute", "concurrent", "ownership",
              "independence"}

NilOptions == [isNil |-> TRUE, EnforceLabels |-> <<>>]

\* the options passed to the constructor
WorkloadOptions(w) ==
    CASE w = "labels" -> PrometheusLoggerOptions
      [] w = "enforce" ->
           {NilOptions} \cup
           {[isNil |-> FALSE, EnforceLabels |-> l] :
               l \in SeqsUpTo({EnforceLabelSubject, EnforceLabelObject,
                               EnforceLabelAction}, MaxLabels)}
      [] w = "projection" ->
           {NilOptions} \cup
           {[isNil |-> FALSE, EnforceLabels |-> l] :
               l \in {<<EnforceLabelSubject>>, <<EnforceLabelObject>>,
                      <<EnforceLabelAction, EnforceLabelSubject>>,
                      <<EnforceLabelSubject, EnforceLabelObject, EnforceLabelAction>>}}
      [] w = "lifecycle" ->
           {NilOptions} \cup
           {[isNil |-> FALSE, EnforceLabels |-> l] :
               l \in {<<EnforceLabelSubject>>,
                      <<EnforceLabelSubject, EnforceLabelSubject>>}}
      [] w = "series" ->
           {NilOptions} \cup
           {[isNil |-> FALSE, EnforceLabels |-> l] :
               l \in {<<EnforceLabelSubject>>, <<EnforceLabelAction>>,
                      <<EnforceLabelObject, EnforceLabelSubject>>}}
      [] OTHER -> {NilOptions}

\* the lists passed to SetEventTypes
WorkloadEventTypeLists(w) ==
    CASE w = "filter" -> SeqsUpTo({EventEnforce, EventAddPolicy, EventCustom}, MaxTypes)
      [] w = "callback" -> {<<>>, <<EventEnforce>>}
      [] w = "race" -> SeqsUpTo({EventEnforce, EventAddPolicy}, MaxTypes)
      [] w = "state" -> {<<>>, <<EventEnforce>>}
      [] w = "independence" -> {<<>>, <<EventEnforce>>}
      [] OTHER -> {<<>>}

\* the callbacks passed to SetLogCallback
WorkloadCallbacks(w) ==
    CASE w = "callback" -> Callbacks
      [] w = "independence" -> {NoCallback, "callback error"}
      [] OTHER -> {NoCallback}

\* the arguments of UpdatePolicyState
WorkloadPTypes(w) == IF w = "state" THEN {"p", "g", "g2"} ELSE {"p"}
WorkloadCounts(w) == IF w = "state" THEN 0..MaxCount ELSE {MaxCount}

\* the largest reading of the clock: where time is not varied, every reading is 1
WorkloadMaxTime(w) == IF w \in {"callback", "duration"} THEN MaxTime ELSE 1

\* the number of metric-recording calls in a run
WorkloadMaxEvents(w) ==
    CASE w \in {"filter", "callback", "labels", "projection", "lifecycle",
                "duration", "independence"} -> 1
      [] w \in {"rules", "state"} -> MaxEvents + 1
      [] w = "series" -> 2
      [] OTHER -> MaxEvents

\* the caller keeps the envelopes it has recorded, to compare their series
WorkloadKeeps(w) == w = "series"

\* the caller notes the entries it passes to OnAfterEvent, in the order of the calls
WorkloadRecords(w) == w = "commute"

\* the caller notes which of the registered names its recorder registered
WorkloadOwners(w) == w \in {"ownership", "independence"}

\* the caller keeps the recorder it held when it builds another
WorkloadPeers(w) == w = "independence"

\* the entries the caller builds with a composite literal &LogEntry{...}:
\* EndTime and Duration are left at their zero values
WorkloadEntries(w) ==
    CASE w = "filter" ->
           [EventType : EventTypes, Subject : {"alice"}, Object : {"data1"},
            Action : {"read"}, Domain : {"domain1"}, Allowed : {TRUE},
            RuleCount : {MaxCount}, Error : {"nil"}, IsActive : BOOLEAN,
            StartTime : {0}, EndTime : {0}, Duration : {0}]
      [] w = "callback" ->
           [EventType : EventTypes, Subject : {"alice"}, Object : {"data1"},
            Action : {"read"}, Domain : {"domain1"}, Allowed : {TRUE},
            RuleCount : {MaxCount}, Error : {"test error"}, IsActive : BOOLEAN,
            StartTime : {0}, EndTime : {0}, Duration : {0}]
      [] w = "policy" ->
           [EventType : PolicyEventTypes, Subject : {"alice"}, Object : {"data1"},
            Action : {"read"}, Domain : {"domain1"}, Allowed : {TRUE},
            RuleCount : {0, MaxCount}, Error : Errors, IsActive : {TRUE},
            StartTime : {0}, EndTime : {0}, Duration : {0}]
      [] w = "rules" ->
           [EventType : {EventAddPolicy, EventLoadPolicy}, Subject : {""},
            Object : {""}, Action : {""}, Domain : {""}, Allowed : {FALSE},
            RuleCount : 0..MaxCount, Error : {"nil"}, IsActive : {TRUE},
            StartTime : {0}, EndTime : {0}, Duration : {0}]
      [] w = "enforce" ->
           [EventType : {EventEnforce}, Subject : Subjects, Object : {"data1"},
            Action : {"read"}, Domain : Domains, Allowed : BOOLEAN,
            RuleCount : {MaxCount}, Error : {"test error"}, IsActive : {TRUE},
            StartTime : {0}, EndTime : {0}, Duration : {0}]
      [] w = "labels" ->
           [EventType : {EventEnforce}, Subject : {"alice"}, Object : {"data1"},
            Action : {"read"}, Domain : {"domain1"}, Allowed : BOOLEAN,
            RuleCount : {0}, Error : {"nil"}, IsActive : BOOLEAN,
            StartTime : {0}, EndTime : {0}, Duration : {0}]
      [] w = "race" ->
           [EventType : {EventEnforce, EventAddPolicy, EventLoadPolicy},
            Subject : {""}, Object : {""}, Action : {""}, Domain : {""},
            Allowed : {FALSE}, RuleCount : {0}, Error : {"nil"}, IsActive : {FALSE},
            StartTime : {0}, EndTime : {0}, Duration : {0}]
      [] w = "duration" ->
           \* IsActive and StartTime set by the caller: StartTime unset, a past
           \* time, or a time the clock has not reached
           [EventType : {EventEnforce, EventAddPolicy}, Subject : {"alice"},
            Object : {"data1"}, Action : {"read"}, Domain : {"domain1"},
            Allowed : {TRUE}, RuleCount : {0}, Error : {"nil"}, IsActive : BOOLEAN,
            StartTime : {ZeroTime} \cup 0..(MaxTime + 1), EndTime : {0},
            Duration : {0}]
      [] w = "state" ->
           [EventType : {EventAddPolicy}, Subject : {""}, Object : {""},
            Action : {""}, Domain : {""}, Allowed : {FALSE},
            RuleCount : {MaxCount}, Error : {"nil"}, IsActive : BOOLEAN,
            StartTime : {0}, EndTime : {0}, Duration : {0}]
      [] w = "series" ->
           [EventType : {EventEnforce}, Subject : Subjects, Object : Objects,
            Action : {"read"}, Domain : Domains \cup {"default"}, Allowed : BOOLEAN,
            RuleCount : {0}, Error : {"nil"}, IsActive : {TRUE},
            StartTime : {0}, EndTime : {0}, Duration : {0}]
      [] w = "commute" ->
           \* IsActive and StartTime set by the caller, so that durations differ
           [EventType : {EventEnforce}, Subject : {"alice"}, Object : {"data1"},
            Action : {"read"}, Domain : {"domain1"}, Allowed : {TRUE},
            RuleCount : {0}, Error : {"nil"}, IsActive : {TRUE},
            StartTime : {0, 1}, EndTime : {0}, Duration : {0}] \cup
           [EventType : {EventAddPolicy}, Subject : {""}, Object : {""},
            Action : {""}, Domain : {""}, Allowed : {FALSE},
            RuleCount : 0..MaxCount, Error : Errors, IsActive : {TRUE},
            StartTime : {0, 1}, EndTime : {0}, Duration : {0}] \cup
           [EventType : {EventCustom}, Subject : {""}, Object : {""},
            Action : {""}, Domain : {""}, Allowed : {FALSE},
            RuleCount : {MaxCount}, Error : {"test error"}, IsActive : {TRUE},
            StartTime : {0}, EndTime : {0}, Duration : {0}]
      [] w = "independence" ->
           [EventType : {EventEnforce}, Subject : {"alice"},
            Object : {"data1"}, Action : {"read"}, Domain : {"domain1"},
            Allowed : {TRUE}, RuleCount : {MaxCount}, Error : {"nil"},
            IsActive : {TRUE}, StartTime : {0}, EndTime : {0}, Duration : {0}]
      [] w = "concurrent" ->
           [EventType : {EventEnforce}, Subject : Subjects, Object : {"data1"},
            Action : {"read"}, Domain : {"domain1"}, Allowed : {TRUE},
            RuleCount : {0}, Error : {"nil"}, IsActive : BOOLEAN,
            StartTime : {0}, EndTime : {0}, Duration : {0}] \cup
           [EventType : {EventAddPolicy}, Subject : {""}, Object : {""},
            Action : {""}, Domain : {""}, Allowed : {FALSE},
            RuleCount : {0, MaxCount}, Error : Errors, IsActive : {TRUE},
            StartTime : {0}, EndTime : {0}, Duration : {0}]
      [] w = "projection" ->
           [EventType : {EventEnforce}, Subject : Subjects, Object : Objects,
            Action : Actions, Domain : Domains \cup {"default"}, Allowed : BOOLEAN,
            RuleCount : {0}, Error : {"nil"}, IsActive : {TRUE},
            StartTime : {0}, EndTime : {0}, Duration : {0}]

-----------------------------------------------------------------------------
(* The recorder's operations *)

NoCall == [op |-> "none", arg |-> <<>>, ret |-> "nil", pre |-> <<>>, cb |-> <<>>]

\* the recorder's fields read by the hooks
Logger == [enabledEventTypes |-> enabledEventTypes, callback |-> callback,
           enforceLabels |-> enforceLabels]

Snapshot == [entry |-> entry, metrics |-> Metrics,
             enabledEventTypes |-> enabledEventTypes, callback |-> callback,
             options |-> options, enforceLabels |-> enforceLabels,
             constructed |-> constructed, registries |-> registries,
             own |-> own, target |-> target, peer |-> peer]

\* the loop of SetEventTypes: the keys of the list are set to true in map m
RECURSIVE KeysSet(_, _)
KeysSet(m, eventTypes) ==
    IF eventTypes = <<>> THEN m
    ELSE KeysSet(m \cup {Head(eventTypes)}, Tail(eventTypes))

\* mutant: the keys are added to the map already held
MergedEventTypes(old, eventTypes) == KeysSet(old, eventTypes)

\* SetEventTypes, lines 149-152: a new map, then the keys of the list
NewEnabledEventTypes(old, eventTypes) == KeysSet({}, eventTypes)

\* mutant: an empty map admits nothing
AdmitsMembersOnly(enabled, eventType) == eventType \in enabled

\* OnBeforeEvent, line 158: the entry passes the filter
Admits(enabled, eventType) ==
    ~(Cardinality(enabled) > 0 /\ eventType \notin enabled)

\* mutant: an entry is rejected whenever its event type is not found
RejectsUnlessFound(n, found) == ~found

\* OnBeforeEvent, line 158, on the two values it reads: the length of the map
\* and whether the event type is a key of it
Rejects(n, found) == n > 0 /\ ~found

\* mutant: the hook never returns early
SkipsNever(p, e) == FALSE

\* mutant: the hook evaluates the filter again
SkipsFiltered(p, e) == ~e.IsActive \/ ~Admits(p.enabledEventTypes, e.EventType)

\* OnAfterEvent, line 170: the hook returns at once
Skips(p, e) == ~e.IsActive

\* mutant: the callback is invoked before the metrics are recorded
AfterEventCallbackFirst(p, m, e, t) ==
    IF Skips(p, e)
    THEN [entry |-> e, metrics |-> m, ret |-> "nil", cb |-> <<>>]
    ELSE LET e1 == [e EXCEPT !.EndTime = t, !.Duration = Sub(t, e.StartTime)]
             m1 == recordMetrics(m, p.enforceLabels, e1)
         IN  IF p.callback # NoCallback
             THEN [entry |-> e1, metrics |-> m1, ret |-> p.callback,
                   cb |-> <<[entry |-> e1, metrics |-> m]>>]
             ELSE [entry |-> e1, metrics |-> m1, ret |-> "nil", cb |-> <<>>]

\* mutant: a callback error undoes the recording
AfterEventRollback(p, m, e, t) ==
    IF Skips(p, e)
    THEN [entry |-> e, metrics |-> m, ret |-> "nil", cb |-> <<>>]
    ELSE LET e1 == [e EXCEPT !.EndTime = t, !.Duration = Sub(t, e.StartTime)]
             m1 == recordMetrics(m, p.enforceLabels, e1)
         IN  IF p.callback # NoCallback
             THEN [entry |-> e1, metrics |-> IF p.callback = "nil" THEN m1 ELSE m,
                   ret |-> p.callback, cb |-> <<[entry |-> e1, metrics |-> m1]>>]
             ELSE [entry |-> e1, metrics |-> m1, ret |-> "nil", cb |-> <<>>]

\* mutant: without a callback, the error the entry carries is returned
AfterEventReturnsEntryError(p, m, e, t) ==
    IF Skips(p, e)
    THEN [entry |-> e, metrics |-> m, ret |-> "nil", cb |-> <<>>]
    ELSE LET e1 == [e EXCEPT !.EndTime = t, !.Duration = Sub(t, e.StartTime)]
             m1 == recordMetrics(m, p.enforceLabels, e1)
         IN  IF p.callback # NoCallback
             THEN [entry |-> e1, metrics |-> m1, ret |-> p.callback,
                   cb |-> <<[entry |-> e1, metrics |-> m1]>>]
             ELSE [entry |-> e1, metrics |-> m1, ret |-> e.Error, cb |-> <<>>]

\* OnAfterEvent on entry e at clock reading t, by recorder p holding metrics m:
\* the entry and the metrics it leaves, its result, and what it showed the callback
AfterEvent(p, m, e, t) ==
    IF Skips(p, e)
    THEN [entry |-> e, metrics |-> m, ret |-> "nil", cb |-> <<>>]
    ELSE LET e1 == [e EXCEPT !.EndTime = t, !.Duration = Sub(t, e.StartTime)]
             m1 == recordMetrics(m, p.enforceLabels, e1)
         IN  IF p.callback # NoCallback
             THEN [entry |-> e1, metrics |-> m1, ret |-> p.callback,
                   cb |-> <<[entry |-> e1, metrics |-> m1]>>]
             ELSE [entry |-> e1, metrics |-> m1, ret |-> "nil", cb |-> <<>>]

\* no call is in progress
Idle == [pc |-> "idle"]

\* the caller keeps no other recorder
NoPeer == [exists |-> FALSE]

\* the goroutines that call OnAfterEvent at the same time
Goroutines == 1..MaxEvents

InitWorkload(w) ==
    /\ workload = w
    /\ options \in WorkloadOptions(w)
    /\ LET r == Construction(EmptyRegistry, options)
       IN  /\ enforceLabels = r.enforceLabels
           /\ constructed = ~r.panicked
           /\ registries = [id \in RegistryIds |->
                              IF id = "custom" THEN r.registry ELSE EmptyRegistry]
           /\ own = [id \in RegistryIds |->
                       IF WorkloadOwners(w) /\ id = "custom" /\ ~r.panicked
                       THEN FamilyNames
                       ELSE {}]
    /\ enabledEventTypes = {}
    /\ callback = NoCallback
    /\ enforceDuration = EmptyVec
    /\ enforceTotal = EmptyVec
    /\ policyOpsTotal = EmptyVec
    /\ policyOpsDuration = EmptyVec
    /\ policyRulesCount = EmptyVec
    /\ policyStateCount = EmptyVec
    /\ entry = [EventType |-> EventEnforce, Subject |-> "", Object |-> "",
                Action |-> "", Domain |-> "", Allowed |-> FALSE, RuleCount |-> 0,
                Error |-> "nil", IsActive |-> FALSE, StartTime |-> 0,
                EndTime |-> 0, Duration |-> 0]
    /\ now = 1
    /\ last = NoCall
    /\ admitted = "none"
    /\ lastRuleCount = [op \in PolicyEventTypes |-> 0]
    /\ events = 0
    /\ done = FALSE
    /\ kept = {}
    /\ lastCount = <<>>
    /\ setting = Idle
    /\ deciding = Idle
    /\ running = [g \in Goroutines |-> Idle]
    /\ recorded = <<>>
    /\ target = "custom"
    /\ peer = NoPeer

\* the caller builds a new entry: entry := &LogEntry{...}
NewLogEntry ==
    /\ constructed
    /\ deciding.pc = "idle"
    \* a caller that keeps its envelopes builds none that the run cannot record
    /\ (WorkloadKeeps(workload) \/ WorkloadRecords(workload)
            \/ WorkloadPeers(workload)) =>
          events < WorkloadMaxEvents(workload)
    /\ \E e \in WorkloadEntries(workload) : entry' = e
    /\ admitted' = "none"
    /\ done' = FALSE
    /\ last' = NoCall
    /\ UNCHANGED <<options, enabledEventTypes, callback, enforceLabels,
                   metricVars, now, lastRuleCount, constructed, events, kept,
                   recorded, lastCount, registries, own, target, peer,
                   stepVars, workload>>

SetEventTypes ==
    /\ constructed
    /\ \E eventTypes \in WorkloadEventTypeLists(workload) :
          /\ enabledEventTypes' = NewEnabledEventTypes(enabledEventTypes, eventTypes)
          /\ last' = [NoCall EXCEPT !.op = "SetEventTypes", !.arg = eventTypes,
                                    !.pre = <<Snapshot>>]
    /\ UNCHANGED <<options, callback, enforceLabels, metricVars, entry, now,
                   admitted, lastRuleCount, constructed, events, kept,
                   recorded, lastCount, registries, own, target, peer,
                   stepVars, workload, done>>

SetLogCallback ==
    /\ constructed
    /\ \E cb \in WorkloadCallbacks(workload) :
          /\ callback' = cb
          /\ last' = [NoCall EXCEPT !.op = "SetLogCallback", !.pre = <<Snapshot>>]
    /\ UNCHANGED <<options, enabledEventTypes, enforceLabels, metricVars,
                   entry, now, admitted, lastRuleCount, constructed, events,
                   kept, recorded, lastCount, registries, own, target, peer,
                   stepVars, workload, done>>

\* mutant: a rejected entry is stamped with the time of the decision
OnBeforeEventStampsRejected ==
    /\ constructed
    /\ admitted = "none" /\ ~done
    /\ \E t \in now..WorkloadMaxTime(workload) :
          /\ now' = t
          /\ IF ~Admits(enabledEventTypes, entry.EventType)
             THEN /\ entry' = [entry EXCEPT !.IsActive = FALSE, !.StartTime = t]
                  /\ admitted' = "no"
             ELSE /\ entry' = [entry EXCEPT !.IsActive = TRUE, !.StartTime = t]
                  /\ admitted' = "yes"
    /\ last' = [NoCall EXCEPT !.op = "OnBeforeEvent",
                              !.arg = <<FALSE, {enabledEventTypes}>>,
                              !.pre = <<Snapshot>>]
    /\ UNCHANGED <<options, enabledEventTypes, callback, enforceLabels,
                   metricVars, lastRuleCount, constructed, events, kept,
                   recorded, lastCount, registries, own, target, peer,
                   stepVars, workload, done>>

\* an entry goes through each hook at most once, OnBeforeEvent first
OnBeforeEvent ==
    /\ constructed
    /\ admitted = "none" /\ ~done
    /\ IF ~Admits(enabledEventTypes, entry.EventType)
       THEN /\ entry' = [entry EXCEPT !.IsActive = FALSE]
            /\ now' = now
            /\ admitted' = "no"
       ELSE \E t \in now..WorkloadMaxTime(workload) :
               /\ now' = t
               /\ entry' = [entry EXCEPT !.IsActive = TRUE, !.StartTime = t]
               /\ admitted' = "yes"
    /\ last' = [NoCall EXCEPT !.op = "OnBeforeEvent",
                              !.arg = <<FALSE, {enabledEventTypes}>>,
                              !.pre = <<Snapshot>>]
    /\ UNCHANGED <<options, enabledEventTypes, callback, enforceLabels,
                   metricVars, lastRuleCount, constructed, events, kept,
                   recorded, lastCount, registries, own, target, peer,
                   stepVars, workload, done>>

OnAfterEvent ==
    /\ constructed
    /\ ~done
    /\ done' = TRUE
    /\ Skips(Logger, entry) \/ events < WorkloadMaxEvents(workload)
    /\ \E t \in now..WorkloadMaxTime(workload) :
          LET r == AfterEvent(Logger, Metrics, entry, t)
          IN  /\ now' = IF Skips(Logger, entry) THEN now ELSE t
              /\ entry' = r.entry
              /\ enforceDuration' = r.metrics.enforceDuration
              /\ enforceTotal' = r.metrics.enforceTotal
              /\ policyOpsTotal' = r.metrics.policyOpsTotal
              /\ policyOpsDuration' = r.metrics.policyOpsDuration
              /\ policyRulesCount' = r.metrics.policyRulesCount
              /\ policyStateCount' = r.metrics.policyStateCount
              /\ last' = [op |-> "OnAfterEvent", arg |-> <<>>, ret |-> r.ret,
                          pre |-> <<Snapshot>>, cb |-> r.cb]
              /\ events' = IF Skips(Logger, entry) THEN events ELSE events + 1
              /\ kept' =
                    IF WorkloadKeeps(workload) /\ ~Skips(Logger, entry)
                    THEN kept \cup
                         {[entry |-> r.entry,
                           counters |-> Changed(enforceTotal, r.metrics.enforceTotal),
                           histograms |-> Changed(enforceDuration,
                                                  r.metrics.enforceDuration)]}
                    ELSE kept
              /\ recorded' =
                    IF WorkloadRecords(workload) /\ ~Skips(Logger, entry)
                    THEN Append(recorded, [entry |-> entry, t |-> t])
                    ELSE recorded
              /\ lastRuleCount' =
                    IF /\ entry.IsActive
                       /\ entry.EventType \in PolicyEventTypes
                       /\ entry.RuleCount > 0
                    THEN [lastRuleCount EXCEPT ![entry.EventType] = entry.RuleCount]
                    ELSE lastRuleCount
    /\ UNCHANGED <<options, enabledEventTypes, callback, enforceLabels,
                   admitted, constructed, lastCount, registries, own, target,
                   peer, stepVars, workload>>

UpdatePolicyState ==
    /\ constructed
    /\ events < WorkloadMaxEvents(workload)
    /\ \E ptype \in WorkloadPTypes(workload), count \in WorkloadCounts(workload) :
          /\ policyStateCount' = Set(policyStateCount, <<ptype>>, count)
          /\ lastCount' = (ptype :> count) @@ lastCount
          /\ last' = [NoCall EXCEPT !.op = "UpdatePolicyState",
                                    !.arg = <<ptype, count>>, !.pre = <<Snapshot>>]
    /\ events' = events + 1
    /\ UNCHANGED <<options, enabledEventTypes, callback, enforceLabels,
                   enforceDuration, enforceTotal, policyOpsTotal,
                   policyOpsDuration, policyRulesCount, entry, now, admitted,
                   lastRuleCount, constructed, kept, recorded, registries, own,
                   target, peer, stepVars, workload, done>>

\* a second recorder is built, on the default registry (registry == nil) or on
\* the caller's; when registration panics the caller is left with what it had
NewPrometheusLoggerWithOptions ==
    \E id \in RegistryIds, opts \in WorkloadOptions(workload) :
        LET r == Construction(registries[id], opts)
        IN  /\ registries' = [registries EXCEPT ![id] = r.registry]
            /\ last' = [NoCall EXCEPT !.op = "NewPrometheusLoggerWithOptions",
                                      !.arg = <<id, opts>>,
                                      !.ret = IF r.panicked THEN "panic" ELSE "logger",
                                      !.pre = <<Snapshot>>]
            /\ IF r.panicked
               THEN UNCHANGED <<options, enforceLabels, constructed,
                                enabledEventTypes, callback, metricVars,
                                lastRuleCount, lastCount, kept, recorded, own,
                                target, peer>>
               ELSE /\ options' = opts
                    /\ enforceLabels' = r.enforceLabels
                    /\ constructed' = TRUE
                    /\ enabledEventTypes' = {}
                    /\ callback' = NoCallback
                    /\ enforceDuration' = EmptyVec
                    /\ enforceTotal' = EmptyVec
                    /\ policyOpsTotal' = EmptyVec
                    /\ policyOpsDuration' = EmptyVec
                    /\ policyRulesCount' = EmptyVec
                    /\ policyStateCount' = EmptyVec
                    /\ lastRuleCount' = [op \in PolicyEventTypes |-> 0]
                    /\ lastCount' = <<>>
                    /\ kept' = {}
                    /\ recorded' = <<>>
                    /\ own' = [i \in RegistryIds |->
                                  IF WorkloadOwners(workload) /\ i = id
                                  THEN FamilyNames
                                  ELSE {}]
                    /\ target' = id
                    /\ peer' = IF WorkloadPeers(workload) /\ constructed
                               THEN [exists |-> TRUE, target |-> target,
                                     logger |-> Logger, metrics |-> Metrics,
                                     registered |-> own[target]]
                               ELSE peer
            /\ UNCHANGED <<entry, now, admitted, events, workload, done,
                           stepVars>>

\* the recorder the caller keeps, after registry id has become r: the names it
\* registered on the registry it was built on that are registered still
StillRegistered(p, id, r) ==
    IF p.exists /\ p.target = id
    THEN [p EXCEPT !.registered = @ \cap r.collectorsByID]
    ELSE p

\* the variables of the recorder and of its callers that unregistering leaves alone
recorderVars == <<target, options, enabledEventTypes, callback, enforceLabels, metricVars,
                  entry, now, admitted, lastRuleCount, constructed, events,
                  workload, done, kept, recorded, lastCount, stepVars>>

UnregisterFrom ==
    /\ constructed
    /\ \E id \in RegistryIds :
          LET x == UnregisterAll(registries[id], Collectors(enforceLabels))
          IN  /\ registries' = [registries EXCEPT ![id] = x.registry]
              /\ own' = [own EXCEPT ![id] = @ \cap x.registry.collectorsByID]
              /\ peer' = StillRegistered(peer, id, x.registry)
              /\ last' = [NoCall EXCEPT !.op = "UnregisterFrom", !.arg = <<id>>,
                                        !.ret = IF x.result THEN "true" ELSE "false",
                                        !.pre = <<Snapshot>>]
    /\ UNCHANGED recorderVars

\* mutant: the families are removed from the default registry and from the caller's
UnregisterEverywhere ==
    /\ constructed
    /\ registries' =
          [id \in RegistryIds |->
              UnregisterAll(registries[id], Collectors(enforceLabels)).registry]
    /\ own' = [id \in RegistryIds |-> {}]
    /\ peer' = IF peer.exists THEN [peer EXCEPT !.registered = {}] ELSE peer
    /\ last' = [NoCall EXCEPT !.op = "Unregister", !.pre = <<Snapshot>>]
    /\ UNCHANGED recorderVars

\* Unregister(): the six removals on the default registry, results dropped
Unregister ==
    /\ constructed
    /\ LET x == UnregisterAll(registries["default"], Collectors(enforceLabels))
       IN  /\ registries' = [registries EXCEPT !["default"] = x.registry]
           /\ own' = [own EXCEPT !["default"] = @ \cap x.registry.collectorsByID]
           /\ peer' = StillRegistered(peer, "default", x.registry)
           /\ last' = [NoCall EXCEPT !.op = "Unregister", !.pre = <<Snapshot>>]
    /\ UNCHANGED recorderVars

\* the caller removes one family itself: registry.Unregister(p.GetEnforceTotal())
UnregisterCollector ==
    /\ constructed
    /\ \E i \in 1..Len(Collectors(enforceLabels)) :
          LET x == RegistryUnregister(registries["custom"], Collectors(enforceLabels)[i])
          IN  /\ registries' = [registries EXCEPT !["custom"] = x.registry]
              /\ own' = [own EXCEPT !["custom"] = @ \cap x.registry.collectorsByID]
              /\ peer' = StillRegistered(peer, "custom", x.registry)
              /\ last' = [NoCall EXCEPT !.op = "UnregisterCollector", !.arg = <<i>>,
                                        !.ret = IF x.ok THEN "true" ELSE "false",
                                        !.pre = <<Snapshot>>]
    /\ UNCHANGED recorderVars

-----------------------------------------------------------------------------
(* SetEventTypes and OnBeforeEvent on two goroutines, statement by statement:
   the recorder has no lock, so the reads of OnBeforeEvent fall anywhere
   between the writes of SetEventTypes *)

\* line 149: p.enabledEventTypes = make(map[EventType]bool). An OnBeforeEvent
\* that has loaded the map replaced here keeps that map, which is written no more.
SetEventTypesMake ==
    /\ constructed
    /\ setting.pc = "idle" /\ deciding.pc # "fatal"
    /\ \E eventTypes \in WorkloadEventTypeLists(workload) :
          /\ setting' = [pc |-> "loop", arg |-> eventTypes, rest |-> eventTypes,
                         old |-> enabledEventTypes, pre |-> Snapshot]
          /\ deciding' =
                IF deciding.pc = "lookup"
                THEN [deciding EXCEPT
                         !.raced = TRUE,
                         !.sets = @ \cup {Range(eventTypes)},
                         !.loaded = IF @ = <<>> THEN <<enabledEventTypes>> ELSE @]
                ELSE deciding
    /\ enabledEventTypes' = {}
    /\ UNCHANGED <<options, callback, enforceLabels, metricVars, entry, now,
                   last, admitted, lastRuleCount, constructed, events,
                   workload, done, kept, recorded, lastCount, registries, own,
                   target, peer, running>>

\* lines 150-152, one iteration: p.enabledEventTypes[eventType] = true
SetEventTypesStore ==
    /\ setting.pc = "loop" /\ setting.rest # <<>> /\ deciding.pc # "fatal"
    /\ enabledEventTypes' = KeysSet(enabledEventTypes, <<Head(setting.rest)>>)
    /\ setting' = [setting EXCEPT !.rest = Tail(@)]
    /\ UNCHANGED <<options, callback, enforceLabels, metricVars, entry, now,
                   last, admitted, lastRuleCount, constructed, events,
                   workload, done, kept, recorded, lastCount, registries, own,
                   target, peer, running, deciding>>

\* line 153: return nil
SetEventTypesReturn ==
    /\ setting.pc = "loop" /\ setting.rest = <<>> /\ deciding.pc # "fatal"
    /\ setting' = Idle
    /\ last' = [NoCall EXCEPT !.op = "SetEventTypes", !.arg = setting.arg,
                              !.pre = <<setting.pre>>]
    /\ UNCHANGED <<options, enabledEventTypes, callback, enforceLabels,
                   metricVars, entry, now, admitted, lastRuleCount,
                   constructed, events, workload, done, kept, recorded,
                   lastCount, registries, own, target, peer, running,
                   deciding>>

\* line 158, left operand: len(p.enabledEventTypes). The call notes whether a
\* SetEventTypes call overlaps it (raced) and the sets enabled before and
\* after each such call (sets).
OnBeforeEventLen ==
    /\ constructed
    /\ deciding.pc = "idle" /\ admitted = "none" /\ ~done
    /\ deciding' = [pc |-> "lookup", len |-> Cardinality(enabledEventTypes),
                    loaded |-> <<>>, raced |-> setting.pc # "idle",
                    sets |-> IF setting.pc = "idle" THEN {enabledEventTypes}
                             ELSE {setting.old, Range(setting.arg)}]
    /\ UNCHANGED <<options, enabledEventTypes, callback, enforceLabels,
                   metricVars, entry, now, last, admitted, lastRuleCount,
                   constructed, events, workload, done, kept, recorded,
                   lastCount, registries, own, target, peer, running, setting>>

\* line 158, right operand, and lines 159-165. The map read is the one the
\* field holds now or the one loaded for len(); a read while the loop of
\* SetEventTypes is writing the same map is a data race that the runtime may
\* end with a fatal error.
OnBeforeEventDecide ==
    /\ deciding.pc = "lookup"
    /\ \/ /\ setting.pc = "loop" /\ setting.rest # <<>>
          /\ deciding' = [pc |-> "fatal"]
          /\ UNCHANGED <<entry, now, admitted, last>>
       \/ \E m \in {enabledEventTypes} \cup Range(deciding.loaded) :
             /\ IF Rejects(deciding.len, entry.EventType \in m)
                THEN /\ entry' = [entry EXCEPT !.IsActive = FALSE]
                     /\ admitted' = "no"
                ELSE /\ entry' = [entry EXCEPT !.IsActive = TRUE, !.StartTime = now]
                     /\ admitted' = "yes"
             /\ now' = now
             /\ deciding' = Idle
             /\ last' = [NoCall EXCEPT
                            !.op = "OnBeforeEvent",
                            !.arg = <<deciding.raced, deciding.sets>>,
                            !.pre = <<Snapshot>>]
    /\ UNCHANGED <<options, enabledEventTypes, callback, enforceLabels,
                   metricVars, lastRuleCount, constructed, events, workload,
                   done, kept, recorded, lastCount, registries, own, target,
                   peer, running, setting>>

-----------------------------------------------------------------------------
(* OnAfterEvent on several goroutines, each on an entry of its own, statement
   by statement. The recorder takes no lock; each call on a metric vector
   (WithLabelValues(...).Inc, .Observe, .Set) is one step, the vectors being
   safe for concurrent use. *)

\* the variables the steps of OnAfterEvent leave alone
hookFrame == <<target, peer, options, enabledEventTypes, callback, enforceLabels, entry,
               admitted, lastRuleCount, constructed, workload, done, kept,
               recorded, lastCount, registries, own, setting, deciding>>

\* lines 170-175 and the switch of line 178: an inactive entry returns at once;
\* an active one gets EndTime and Duration and goes on to record its metrics
OnAfterEventBegin(g) ==
    /\ constructed
    /\ running[g].pc = "idle"
    /\ callback = NoCallback
    /\ \E e \in WorkloadEntries(workload), t \in now..WorkloadMaxTime(workload) :
          IF Skips(Logger, e)
          THEN /\ running' = [running EXCEPT ![g] =
                                 [pc |-> "returned", entry |-> e, given |-> e]]
               /\ now' = now
          ELSE LET e1 == [e EXCEPT !.EndTime = t, !.Duration = Sub(t, e.StartTime)]
               IN  /\ running' = [running EXCEPT ![g] =
                         [pc |-> CASE e.EventType = EventEnforce -> "line 228"
                                   [] e.EventType \in PolicyEventTypes -> "line 240"
                                   [] OTHER -> "line 186",
                          entry |-> e1, given |-> e]]
                   /\ now' = t
    /\ UNCHANGED <<hookFrame, metricVars, last, events>>

\* line 228: p.enforceDuration.WithLabelValues(labelValues...).Observe(...)
recordEnforceMetricsObserve(g) ==
    /\ running[g].pc = "line 228"
    /\ enforceDuration' = Observe(enforceDuration,
                                  ProjectLabels(enforceLabels, running[g].entry),
                                  running[g].entry.Duration)
    /\ running' = [running EXCEPT ![g].pc = "line 229"]
    /\ UNCHANGED <<hookFrame, enforceTotal, policyOpsTotal, policyOpsDuration,
                   policyRulesCount, policyStateCount, now, last, events>>

\* line 229: p.enforceTotal.WithLabelValues(labelValues...).Inc()
recordEnforceMetricsInc(g) ==
    /\ running[g].pc = "line 229"
    /\ enforceTotal' = Inc(enforceTotal,
                           ProjectLabels(enforceLabels, running[g].entry))
    /\ running' = [running EXCEPT ![g].pc = "line 186"]
    /\ UNCHANGED <<hookFrame, enforceDuration, policyOpsTotal,
                   policyOpsDuration, policyRulesCount, policyStateCount, now,
                   last, events>>

\* line 240: p.policyOpsTotal.WithLabelValues(operation, success).Inc()
recordPolicyMetricsInc(g) ==
    /\ running[g].pc = "line 240"
    /\ LET e == running[g].entry
           success == IF e.Error # "nil" THEN "false" ELSE "true"
       IN  policyOpsTotal' = Inc(policyOpsTotal, <<e.EventType, success>>)
    /\ running' = [running EXCEPT ![g].pc = "line 241"]
    /\ UNCHANGED <<hookFrame, enforceDuration, enforceTotal, policyOpsDuration,
                   policyRulesCount, policyStateCount, now, last, events>>

\* mutant: the duration of a failed operation is not observed
recordPolicyMetricsObserveOnSuccess(g) ==
    /\ running[g].pc = "line 241"
    /\ LET e == running[g].entry
       IN  /\ policyOpsDuration' =
                 IF e.Error # "nil" THEN policyOpsDuration
                 ELSE Observe(policyOpsDuration, <<e.EventType>>, e.Duration)
           /\ running' = [running EXCEPT ![g].pc =
                             IF e.RuleCount > 0 THEN "line 244" ELSE "line 186"]
    /\ UNCHANGED <<hookFrame, enforceDuration, enforceTotal, policyOpsTotal,
                   policyRulesCount, policyStateCount, now, last, events>>

\* line 241: p.policyOpsDuration.WithLabelValues(operation).Observe(...), and
\* the test of line 243
recordPolicyMetricsObserve(g) ==
    /\ running[g].pc = "line 241"
    /\ LET e == running[g].entry
       IN  /\ policyOpsDuration' =
                 Observe(policyOpsDuration, <<e.EventType>>, e.Duration)
           /\ running' = [running EXCEPT ![g].pc =
                             IF e.RuleCount > 0 THEN "line 244" ELSE "line 186"]
    /\ UNCHANGED <<hookFrame, enforceDuration, enforceTotal, policyOpsTotal,
                   policyRulesCount, policyStateCount, now, last, events>>

\* line 244: p.policyRulesCount.WithLabelValues(operation).Set(...)
recordPolicyMetricsSet(g) ==
    /\ running[g].pc = "line 244"
    /\ LET e == running[g].entry
       IN  policyRulesCount' = Set(policyRulesCount, <<e.EventType>>, e.RuleCount)
    /\ running' = [running EXCEPT ![g].pc = "line 186"]
    /\ UNCHANGED <<hookFrame, enforceDuration, enforceTotal, policyOpsTotal,
                   policyOpsDuration, policyStateCount, now, last, events>>

\* lines 186-190, no callback being set: return nil
OnAfterEventReturn(g) ==
    /\ running[g].pc = "line 186"
    /\ running' = [running EXCEPT ![g].pc = "returned"]
    /\ last' = [NoCall EXCEPT !.op = "OnAfterEvent", !.arg = <<g>>]
    /\ events' = events + 1
    /\ UNCHANGED <<hookFrame, metricVars, now>>

NextConcurrent ==
    \E g \in Goroutines :
        \/ OnAfterEventBegin(g)
        \/ recordEnforceMetricsObserve(g)
        \/ recordEnforceMetricsInc(g)
        \/ recordPolicyMetricsInc(g)
        \/ recordPolicyMetricsObserve(g)
        \/ recordPolicyMetricsSet(g)
        \/ OnAfterEventReturn(g)

NextRace ==
    \/ NewLogEntry
    \/ SetEventTypesMake
    \/ SetEventTypesStore
    \/ SetEventTypesReturn
    \/ OnBeforeEventLen
    \/ OnBeforeEventDecide

\* two recorders in turn: the one held is used, and now and then the caller
\* builds another and keeps the one it held
NextIndependence ==
    \/ NewPrometheusLoggerWithOptions
    \/ UnregisterFrom
    \/ Unregister
    \/ NewLogEntry
    \/ SetEventTypes
    \/ SetLogCallback
    \/ OnBeforeEvent
    \/ OnAfterEvent
    \/ UpdatePolicyState

NextLifecycle ==
    \/ NewPrometheusLoggerWithOptions
    \/ UnregisterFrom
    \/ Unregister
    \/ UnregisterCollector
    \/ UpdatePolicyState

Next ==
    \/ NewLogEntry
    \/ SetEventTypes
    \/ SetLogCallback
    \/ OnBeforeEvent
    \/ OnAfterEvent
    \/ UpdatePolicyState

Init == \E w \in Workloads : InitWorkload(w)

Spec == Init /\ [][Next]_vars
SpecFilter == InitWorkload("filter") /\ [][Next]_vars
SpecCallback == InitWorkload("callback") /\ [][Next]_vars
SpecPolicy == InitWorkload("policy") /\ [][Next]_vars
SpecRules == InitWorkload("rules") /\ [][Next]_vars
SpecEnforce == InitWorkload("enforce") /\ [][Next]_vars
SpecLabels == InitWorkload("labels") /\ [][Next]_vars
SpecProjection == InitWorkload("projection") /\ [][Next]_vars
SpecSeries == InitWorkload("series") /\ [][Next]_vars
SpecState == InitWorkload("state") /\ [][Next]_vars
SpecDuration == InitWorkload("duration") /\ [][Next]_vars
SpecRace == InitWorkload("race") /\ [][NextRace]_vars
SpecLifecycle == InitWorkload("lifecycle") /\ [][NextLifecycle]_vars
SpecCommute == InitWorkload("commute") /\ [][Next]_vars
SpecOwnership == InitWorkload("ownership") /\ [][NextLifecycle]_vars
SpecIndependence == InitWorkload("independence") /\ [][NextIndependence]_vars
SpecConcurrent == InitWorkload("concurrent") /\ [][NextConcurrent]_vars

-----------------------------------------------------------------------------
(* Properties *)

\* the state before the last call
Pre == last.pre[1]

\* the value of a counter series, 0 when the series does not exist
CounterAt(vec, lv) == IF lv \in DOMAIN vec THEN vec[lv] ELSE 0

\* the number of observations of a histogram series
ObservationsAt(vec, lv) == IF lv \in DOMAIN vec THEN vec[lv].count ELSE 0

\* every series but lv is the same in both vectors
SameExcept(old, new, lv) ==
    /\ DOMAIN old \ {lv} = DOMAIN new \ {lv}
    /\ \A k \in DOMAIN old \ {lv} : old[k] = new[k]

AfterActive == last.op = "OnAfterEvent" /\ Pre.entry.IsActive

\* C1: OnAfterEvent on an entry with IsActive = false returns nil, changes no
\* series of the six families, does not invoke the callback and leaves EndTime
\* and Duration as they were, for every event type and every callback.
C1_InactiveEntryIsInert ==
    (last.op = "OnAfterEvent" /\ ~Pre.entry.IsActive) =>
        /\ last.ret = "nil"
        /\ Metrics = Pre.metrics
        /\ last.cb = <<>>
        /\ entry.EndTime = Pre.entry.EndTime
        /\ entry.Duration = Pre.entry.Duration

C1_Witness ==
    /\ last.op = "OnAfterEvent"
    /\ ~Pre.entry.IsActive
    /\ callback = "callback error"
    /\ entry.EventType \in PolicyEventTypes
    /\ events > 0

\* C2: OnBeforeEvent sets IsActive to true exactly when the enabled set is
\* empty or holds the entry's event type.
C2_AdmitIffEmptyOrMember ==
    last.op = "OnBeforeEvent" =>
        (entry.IsActive <=>
            (enabledEventTypes = {} \/ entry.EventType \in enabledEventTypes))

C2_Witness ==
    /\ last.op = "OnBeforeEvent"
    /\ enabledEventTypes # {}
    /\ entry.EventType \notin enabledEventTypes
    /\ ~entry.IsActive
    /\ Pre.entry.IsActive

\* C3: after SetEventTypes the enabled set is exactly the set of the event
\* types of the list passed, whatever was enabled before.
C3_EnabledIsLastList ==
    last.op = "SetEventTypes" => enabledEventTypes = Range(last.arg)

C3_Witness ==
    /\ last.op = "SetEventTypes"
    /\ enabledEventTypes # {}
    /\ Pre.enabledEventTypes \ enabledEventTypes # {}

\* the entry's own counter and histogram both changed in the last call
RecordedOwnMetrics ==
    IF entry.EventType = EventEnforce
    THEN /\ enforceTotal # Pre.metrics.enforceTotal
         /\ enforceDuration # Pre.metrics.enforceDuration
    ELSE /\ policyOpsTotal # Pre.metrics.policyOpsTotal
         /\ policyOpsDuration # Pre.metrics.policyOpsDuration

\* C4: the filter decides once, in OnBeforeEvent: an entry it admitted is
\* recorded by OnAfterEvent and an entry it rejected is not, whatever
\* SetEventTypes has enabled in between.
C4_FilterDecidedAtBefore ==
    last.op = "OnAfterEvent" =>
        /\ (admitted = "yes" /\ entry.EventType # EventCustom) => RecordedOwnMetrics
        /\ admitted = "no" => Metrics = Pre.metrics

C4_Witness ==
    /\ last.op = "OnAfterEvent"
    /\ admitted = "yes"
    /\ entry.EventType \in PolicyEventTypes
    /\ ~Admits(enabledEventTypes, entry.EventType)
    /\ RecordedOwnMetrics

\* C5: OnAfterEvent on an active enforce entry adds 1 to the enforce counter
\* and one observation to the enforce histogram at the entry's label values,
\* and changes no other series of these two families and no policy family.
C5_EnforceRecordsOne ==
    (AfterActive /\ entry.EventType = EventEnforce) =>
        LET lv == ProjectLabels(enforceLabels, entry)
        IN  /\ CounterAt(enforceTotal, lv) = CounterAt(Pre.metrics.enforceTotal, lv) + 1
            /\ ObservationsAt(enforceDuration, lv) =
                  ObservationsAt(Pre.metrics.enforceDuration, lv) + 1
            /\ SameExcept(Pre.metrics.enforceTotal, enforceTotal, lv)
            /\ SameExcept(Pre.metrics.enforceDuration, enforceDuration, lv)
            /\ policyOpsTotal = Pre.metrics.policyOpsTotal
            /\ policyOpsDuration = Pre.metrics.policyOpsDuration
            /\ policyRulesCount = Pre.metrics.policyRulesCount
            /\ policyStateCount = Pre.metrics.policyStateCount

C5_Witness ==
    /\ AfterActive
    /\ entry.EventType = EventEnforce
    /\ Len(enforceLabels) > 2
    /\ entry.RuleCount > 0
    /\ \E k \in DOMAIN Pre.metrics.enforceTotal : k # ProjectLabels(enforceLabels, entry)

\* C6: OnAfterEvent on an active policy entry adds 1 to the policy-operation
\* counter at (operation, success), success being "false" exactly when the
\* entry carries an error, and one observation to the policy-operation
\* histogram at (operation); it changes no other series of the two families
\* and no enforce family.
C6_PolicyRecordsOne ==
    (AfterActive /\ entry.EventType \in PolicyEventTypes) =>
        LET success == IF entry.Error = "nil" THEN "true" ELSE "false"
            lv == <<entry.EventType, success>>
            op == <<entry.EventType>>
        IN  /\ CounterAt(policyOpsTotal, lv) = CounterAt(Pre.metrics.policyOpsTotal, lv) + 1
            /\ ObservationsAt(policyOpsDuration, op) =
                  ObservationsAt(Pre.metrics.policyOpsDuration, op) + 1
            /\ SameExcept(Pre.metrics.policyOpsTotal, policyOpsTotal, lv)
            /\ SameExcept(Pre.metrics.policyOpsDuration, policyOpsDuration, op)
            /\ enforceTotal = Pre.metrics.enforceTotal
            /\ enforceDuration = Pre.metrics.enforceDuration

C6_Witness ==
    /\ AfterActive
    /\ entry.EventType = EventSavePolicy
    /\ entry.Error # "nil"
    /\ CounterAt(policyOpsTotal, <<EventSavePolicy, "false">>) = 1
    /\ <<EventSavePolicy, "true">> \in DOMAIN policyOpsTotal

\* C7: the rule-count gauge of an operation holds the RuleCount of the most
\* recent active entry of that operation whose RuleCount was above 0, and has
\* no series while there was none.
C7_RuleCountLastWins ==
    \A op \in PolicyEventTypes :
        IF lastRuleCount[op] = 0
        THEN <<op>> \notin DOMAIN policyRulesCount
        ELSE /\ <<op>> \in DOMAIN policyRulesCount
             /\ policyRulesCount[<<op>>] = lastRuleCount[op]

C7_Witness ==
    /\ AfterActive
    /\ entry.RuleCount > 0
    /\ <<entry.EventType>> \in DOMAIN Pre.metrics.policyRulesCount
    /\ Pre.metrics.policyRulesCount[<<entry.EventType>>] > entry.RuleCount
    /\ CounterAt(policyRulesCount, <<entry.EventType>>) = entry.RuleCount

\* C8: with a callback set, OnAfterEvent on an active entry invokes it once,
\* with the entry carrying EndTime and Duration and with the entry's metrics
\* already recorded; no other operation invokes the callback.
C8_CallbackOnceAfterRecording ==
    /\ (AfterActive /\ callback # NoCallback) =>
          /\ Len(last.cb) = 1
          /\ last.cb[1].entry = entry
          /\ last.cb[1].entry.EndTime = now
          /\ last.cb[1].entry.Duration = now - Pre.entry.StartTime
          /\ last.cb[1].metrics = Metrics
    /\ last.op # "OnAfterEvent" => last.cb = <<>>

C8_Witness ==
    /\ AfterActive
    /\ callback # NoCallback
    /\ Len(last.cb) = 1
    /\ Metrics # Pre.metrics
    /\ entry.Duration > 0

\* C9: when the callback returns an error, OnAfterEvent on an active entry
\* returns that error and leaves the metrics it would have left had the
\* callback returned nil.
C9_CallbackErrorRelayed ==
    (AfterActive /\ callback \notin {NoCallback, "nil"}) =>
        /\ last.ret = callback
        /\ Metrics = AfterEvent([enabledEventTypes |-> Pre.enabledEventTypes,
                                 callback |-> "nil",
                                 enforceLabels |-> enforceLabels],
                                Pre.metrics, Pre.entry, entry.EndTime).metrics

C9_Witness ==
    /\ AfterActive
    /\ callback = "other error"
    /\ last.ret = "other error"
    /\ Metrics # Pre.metrics

Recognised(label) == label \in {"subject", "object", "action"}

\* C10: the enforce label list is "allowed", "domain" and then the entries of
\* the EnforceLabels option that are "subject", "object" or "action", in the
\* order given; other entries are dropped and do not make construction fail.
C10_LabelListFromOptions ==
    LET selected == SelectSeq(options.EnforceLabels, Recognised)
    IN  /\ enforceLabels = <<"allowed", "domain">> \o selected
        /\ options.isNil => enforceLabels = <<"allowed", "domain">>
        /\ ValidLabelNames(selected) => constructed

C10_Witness ==
    /\ constructed
    /\ options.EnforceLabels = <<"invalid_label", "action">>
    /\ enforceLabels = <<"allowed", "domain", "action">>
    /\ AfterActive
    /\ <<"true", "domain1", "read">> \in DOMAIN enforceTotal

\* the series of a counter family whose value differs between two vectors
UpdatedCounters(old, new) ==
    {lv \in DOMAIN old \cup DOMAIN new : CounterAt(new, lv) # CounterAt(old, lv)}

\* the series of a histogram family whose number of observations differs
UpdatedHistograms(old, new) ==
    {lv \in DOMAIN old \cup DOMAIN new :
        ObservationsAt(new, lv) # ObservationsAt(old, lv)}

\* the enforce series the last call updated
UpdatedEnforceSeries ==
    UpdatedCounters(Pre.metrics.enforceTotal, enforceTotal) \cup
    UpdatedHistograms(Pre.metrics.enforceDuration, enforceDuration)

\* C11: the series an active enforce entry updates has, at the position of
\* each label name, "default" for domain when the entry's Domain is empty and
\* the Domain itself otherwise, "true" or "false" for allowed according to
\* Allowed, and the entry's Subject, Object and Action verbatim (the empty
\* string included) for subject, object and action.
C11_ProjectedLabelValues ==
    (AfterActive /\ entry.EventType = EventEnforce) =>
        /\ UpdatedEnforceSeries # {}
        /\ \A lv \in UpdatedEnforceSeries :
              /\ Len(lv) = Len(enforceLabels)
              /\ \A i \in 1..Len(lv) :
                    /\ enforceLabels[i] = "domain" =>
                          lv[i] = IF entry.Domain = "" THEN "default" ELSE entry.Domain
                    /\ enforceLabels[i] = "allowed" =>
                          lv[i] = IF entry.Allowed THEN "true" ELSE "false"
                    /\ enforceLabels[i] = "subject" => lv[i] = entry.Subject
                    /\ enforceLabels[i] = "object" => lv[i] = entry.Object
                    /\ enforceLabels[i] = "action" => lv[i] = entry.Action

C11_Witness ==
    /\ AfterActive
    /\ entry.EventType = EventEnforce
    /\ entry.Domain = "" /\ entry.Subject = "" /\ entry.Object = "data1"
    /\ enforceLabels = <<"allowed", "domain", "subject", "object", "action">>
    /\ UpdatedEnforceSeries = {<<"false", "default", "", "data1", entry.Action>>}

\* the optional fields of an entry that the label list configures
ConfiguredFields == Range(enforceLabels) \cap {"subject", "object", "action"}

FieldOf(e, label) ==
    CASE label = "subject" -> e.Subject
      [] label = "object" -> e.Object
      [] label = "action" -> e.Action

RewrittenDomain(e) == IF e.Domain = "" THEN "default" ELSE e.Domain

\* C12: two active enforce entries recorded by one recorder update the same
\* counter series and the same histogram series when they agree on Allowed,
\* Domain and every configured optional field, and different series when they
\* differ in Allowed, in the rewritten domain or in a configured optional
\* field; a field that is not configured has no influence.
C12_SeriesDeterminedByLabels ==
    \A a, b \in kept :
        LET agree == /\ a.entry.Allowed = b.entry.Allowed
                     /\ a.entry.Domain = b.entry.Domain
                     /\ \A f \in ConfiguredFields :
                           FieldOf(a.entry, f) = FieldOf(b.entry, f)
            differ == \/ a.entry.Allowed # b.entry.Allowed
                      \/ RewrittenDomain(a.entry) # RewrittenDomain(b.entry)
                      \/ \E f \in ConfiguredFields :
                            FieldOf(a.entry, f) # FieldOf(b.entry, f)
        IN  /\ Cardinality(a.counters) = 1 /\ Cardinality(a.histograms) = 1
            /\ a.counters = a.histograms
            /\ agree => a.counters = b.counters
            /\ differ => a.counters \cap b.counters = {}

C12_Witness ==
    /\ enforceLabels = <<"allowed", "domain", "object", "subject">>
    /\ \E a, b \in kept :
          /\ a.entry.Domain = "" /\ b.entry.Domain = "default"
          /\ a.entry.Subject = b.entry.Subject
          /\ a.entry.Object = b.entry.Object /\ a.entry.Allowed = b.entry.Allowed
          /\ a.counters = b.counters
    /\ Cardinality(DOMAIN enforceTotal) = 1

\* C13: the policy-state gauge has one sample for each ptype passed to
\* UpdatePolicyState so far and no other, its value being the count of the most
\* recent call for that ptype; a call leaves the samples of the other ptypes
\* as they were.
C13_PolicyStateLastWins ==
    /\ DOMAIN policyStateCount = {<<ptype>> : ptype \in DOMAIN lastCount}
    /\ \A ptype \in DOMAIN lastCount :
          CounterAt(policyStateCount, <<ptype>>) = lastCount[ptype]
    /\ last.op = "UpdatePolicyState" =>
          SameExcept(Pre.metrics.policyStateCount, policyStateCount, <<last.arg[1]>>)

C13_Witness ==
    /\ last.op = "UpdatePolicyState"
    /\ last.arg = <<"p", 1>>
    /\ CounterAt(Pre.metrics.policyStateCount, <<"p">>) = MaxCount
    /\ CounterAt(policyStateCount, <<"p">>) = 1
    /\ <<"g">> \in DOMAIN Pre.metrics.policyStateCount
    /\ Cardinality(DOMAIN policyStateCount) = 2

\* the recorder the caller holds is the one it held before the last call
SameRecorder ==
    /\ constructed = Pre.constructed
    /\ options = Pre.options
    /\ enforceLabels = Pre.enforceLabels
    /\ enabledEventTypes = Pre.enabledEventTypes
    /\ callback = Pre.callback
    /\ Metrics = Pre.metrics

\* the families of the six names registered on registry id before the last call
HeldBefore(id) == Pre.registries[id].collectorsByID \cap FamilyNames

\* the registry remembers, for a family of the list, other label names
RemembersOtherLabels(r, labels) ==
    \E c \in Range(Collectors(labels)) :
        /\ c.fqName \in DOMAIN r.dimHashesByName
        /\ r.dimHashesByName[c.fqName] # Range(c.variableLabels)

\* the last call returned a recorder whose six families are registered and empty
ReturnedRecorder ==
    /\ last.ret = "logger"
    /\ constructed
    /\ enforceLabels = BuildEnforceLabels(last.arg[2])
    /\ FamilyNames \subseteq registries[last.arg[1]].collectorsByID
    /\ \A f \in DOMAIN Metrics : Metrics[f] = EmptyVec

Held(id) == registries[id].collectorsByID \cap FamilyNames

\* before the last call registry id held none of the six names and had held
\* all of them: the recorder's families were registered and then all removed
FullyUnregisteredBefore(id) ==
    /\ HeldBefore(id) = {}
    /\ FamilyNames \subseteq DOMAIN Pre.registries[id].dimHashesByName

C18_UnregisterFromPartial ==
    last.op = "UnregisterFrom" =>
        /\ last.ret \in {"true", "false"}
        /\ \A c \in Range(Collectors(enforceLabels)) :
              c.fqName \notin registries[last.arg[1]].collectorsByID
        /\ registries[last.arg[1]].dimHashesByName =
              Pre.registries[last.arg[1]].dimHashesByName
        /\ \A id \in RegistryIds \ {last.arg[1]} : registries[id] = Pre.registries[id]

C18_Witness ==
    /\ last.op = "UnregisterFrom"
    /\ last.arg[1] = "custom"
    /\ HeldBefore("custom") =
          {"casbin_enforce_total", "casbin_policy_rules_count",
           "casbin_policy_state_count"}
    /\ Held("custom") = {}
    /\ last.ret = "false"

\* the last call added 1 to one enforce counter series and one observation to
\* the histogram series of the same label values, and nothing else to either
OneIncrementOneObservation ==
    \E lv \in DOMAIN enforceTotal :
        /\ UpdatedCounters(Pre.metrics.enforceTotal, enforceTotal) = {lv}
        /\ UpdatedHistograms(Pre.metrics.enforceDuration, enforceDuration) = {lv}
        /\ CounterAt(enforceTotal, lv) = CounterAt(Pre.metrics.enforceTotal, lv) + 1
        /\ ObservationsAt(enforceDuration, lv) =
              ObservationsAt(Pre.metrics.enforceDuration, lv) + 1

\* C16: for an entry the filter rejects in OnBeforeEvent, neither OnBeforeEvent
\* nor the OnAfterEvent that follows changes a series of any of the six
\* families (the rule-count gauge included, whatever the RuleCount) or invokes
\* the callback, while an enforce entry admitted in the same run adds one
\* counter increment and one histogram observation.
C16_RejectedEntryLeavesNoTrace ==
    /\ (last.op \in {"OnBeforeEvent", "OnAfterEvent"} /\ admitted = "no") =>
          /\ Metrics = Pre.metrics
          /\ last.cb = <<>>
          /\ last.ret = "nil"
          /\ ~entry.IsActive
    /\ (last.op = "OnAfterEvent" /\ admitted = "yes"
            /\ entry.EventType = EventEnforce) => OneIncrementOneObservation

C16_Witness ==
    /\ last.op = "OnAfterEvent"
    /\ admitted = "no"
    /\ entry.EventType = EventAddPolicy
    /\ entry.RuleCount > 0
    /\ callback = "callback error"
    /\ enabledEventTypes = {EventEnforce}
    /\ CounterAt(enforceTotal, <<"true", "domain1">>) = 1
    /\ policyRulesCount = EmptyVec

\* C17 as stated: after OnAfterEvent on an active entry, Duration is EndTime
\* minus StartTime and is not negative, also when the caller set IsActive and
\* StartTime itself.
C17_DurationNonNegative ==
    AfterActive =>
        /\ entry.Duration = entry.EndTime - entry.StartTime
        /\ entry.Duration >= 0

\* C19 as stated: an OnBeforeEvent that overlaps SetEventTypes calls decides
\* as one of the sets enabled before or after those calls decides; no empty or
\* partly filled set shows.
C19_AtomicReplace ==
    (last.op = "OnBeforeEvent" /\ last.arg[1]) =>
        \E enabled \in last.arg[2] :
            entry.IsActive <=> Admits(enabled, entry.EventType)

\* C19, amended: SetEventTypes replaces the enabled set as a whole, not under
\* a lock: when it returns the set is that of its list, and an OnBeforeEvent
\* that overlaps no SetEventTypes call decides by the set enabled at the time;
\* an OnBeforeEvent that overlaps one may see the empty or partly filled map.
C19_ReplaceWhenNotOverlapped ==
    /\ (last.op = "SetEventTypes" /\ setting.pc = "idle") =>
          enabledEventTypes = Range(last.arg)
    /\ (last.op = "OnBeforeEvent" /\ ~last.arg[1]) =>
          /\ last.arg[2] = {Pre.enabledEventTypes}
          /\ entry.IsActive <=> Admits(Pre.enabledEventTypes, entry.EventType)

C19_Witness ==
    /\ last.op = "OnBeforeEvent"
    /\ ~last.arg[1]
    /\ Pre.enabledEventTypes = {EventEnforce, EventAddPolicy}
    /\ entry.EventType = EventLoadPolicy
    /\ ~entry.IsActive
    /\ setting.pc = "idle"

\* C20 as stated: whatever the EnforceLabels option, a repeated recognised name
\* included, the enforce label list repeats no name, has at most five entries
\* and the recorder is constructed.
C20_LabelListIsASet ==
    /\ ValidLabelNames(enforceLabels)
    /\ Len(enforceLabels) <= 5
    /\ constructed

\* C25: OnAfterEvent on an active policy entry whose RuleCount is 0 leaves the
\* rule-count gauge as it was, creating no sample for the operation and
\* resetting none to 0, while it adds 1 to the policy-operation counter and
\* one observation to the policy-operation histogram.
C25_ZeroRuleCountNotReported ==
    (AfterActive /\ entry.EventType \in PolicyEventTypes /\ entry.RuleCount = 0) =>
        /\ policyRulesCount = Pre.metrics.policyRulesCount
        /\ UpdatedCounters(Pre.metrics.policyOpsTotal, policyOpsTotal) =
              {<<entry.EventType, IF entry.Error = "nil" THEN "true" ELSE "false">>}
        /\ UpdatedHistograms(Pre.metrics.policyOpsDuration, policyOpsDuration) =
              {<<entry.EventType>>}

C25_Witness ==
    /\ AfterActive
    /\ entry.EventType = EventLoadPolicy
    /\ entry.RuleCount = 0
    /\ CounterAt(policyRulesCount, <<EventLoadPolicy>>) = MaxCount
    /\ <<EventAddPolicy>> \notin DOMAIN policyRulesCount
    /\ CounterAt(policyOpsTotal, <<EventLoadPolicy, "true">>) = 2

\* C26: OnBeforeEvent on an entry the filter rejects sets IsActive to false
\* and leaves StartTime and every other field as they were; on an entry the
\* filter admits it sets IsActive to true and StartTime to the current time.
\* Either way it returns nil, changes no series of the six families, invokes
\* no callback and leaves the enabled set and the callback as they were.
C26_BeforeEventEffect ==
    last.op = "OnBeforeEvent" =>
        /\ IF Admits(Pre.enabledEventTypes, Pre.entry.EventType)
           THEN entry = [Pre.entry EXCEPT !.IsActive = TRUE, !.StartTime = now]
           ELSE entry = [Pre.entry EXCEPT !.IsActive = FALSE]
        /\ last.ret = "nil"
        /\ Metrics = Pre.metrics
        /\ last.cb = <<>>
        /\ enabledEventTypes = Pre.enabledEventTypes
        /\ callback = Pre.callback

C26_Witness ==
    /\ last.op = "OnBeforeEvent"
    /\ Pre.entry.IsActive
    /\ ~entry.IsActive
    /\ entry.StartTime = 0
    /\ now = MaxTime
    /\ callback = "callback error"
    /\ Metrics # [f \in DOMAIN Metrics |-> EmptyVec]

\* C27: OnAfterEvent returns the error of the callback when the entry is
\* active and a callback is set, and nil in every other case: an inactive
\* entry, no callback, or a callback returning nil, whatever the event type
\* and also for an entry that carries an error. OnBeforeEvent, SetEventTypes
\* and SetLogCallback return nil.
C27_OnlyCallbackErrorReturned ==
    /\ last.op = "OnAfterEvent" =>
          last.ret = IF Pre.entry.IsActive /\ Pre.callback # NoCallback
                     THEN Pre.callback
                     ELSE "nil"
    /\ last.op \in {"OnBeforeEvent", "SetEventTypes", "SetLogCallback"} =>
          last.ret = "nil"

C27_Witness ==
    /\ AfterActive
    /\ entry.EventType = EventRemovePolicy
    /\ entry.Error = "test error"
    /\ callback = NoCallback
    /\ last.ret = "nil"
    /\ CounterAt(policyOpsTotal, <<EventRemovePolicy, "false">>) = 1

\* the five families other than the policy-state gauge are as before the last call
OtherFamiliesUnchanged ==
    \A f \in DOMAIN Metrics \ {"policyStateCount"} : Metrics[f] = Pre.metrics[f]

\* C28: UpdatePolicyState sets the sample of its ptype whatever event types are
\* enabled, and changes none of the other five families; no OnBeforeEvent and no
\* OnAfterEvent, on an active entry or not, changes a sample of the
\* policy-state gauge.
C28_PolicyStateOutsideProtocol ==
    /\ last.op = "UpdatePolicyState" =>
          /\ <<last.arg[1]>> \in DOMAIN policyStateCount
          /\ CounterAt(policyStateCount, <<last.arg[1]>>) = last.arg[2]
          /\ OtherFamiliesUnchanged
    /\ last.op \in {"OnBeforeEvent", "OnAfterEvent"} =>
          policyStateCount = Pre.metrics.policyStateCount

C28_Witness ==
    /\ last.op = "UpdatePolicyState"
    /\ enabledEventTypes = {EventEnforce}
    /\ last.arg = <<"g", 0>>
    /\ CounterAt(Pre.metrics.policyStateCount, <<"g">>) = MaxCount
    /\ CounterAt(policyStateCount, <<"g">>) = 0
    /\ CounterAt(policyOpsTotal, <<EventAddPolicy, "true">>) = 1

\* the metrics left by the OnAfterEvent calls on the entries es, made in the
\* order of es on a recorder holding metrics m
RECURSIVE Replay(_, _)
Replay(m, es) ==
    IF es = <<>> THEN m
    ELSE Replay(AfterEvent(Logger, m, Head(es).entry, Head(es).t).metrics, Tail(es))

\* the orders in which n calls can be made
Orders(n) == Permutations(1..n)

Reorder(es, p) == [i \in 1..Len(es) |-> es[p[i]]]

\* the metrics of a recorder no entry has been recorded on: the policy-state
\* gauge is as UpdatePolicyState left it
StartMetrics ==
    [f \in DOMAIN Metrics |->
        IF f = "policyStateCount" THEN policyStateCount ELSE EmptyVec]

\* the RuleCount of the last entry of es for operation op that reports one
RECURSIVE LastPositive(_, _)
LastPositive(es, op) ==
    IF es = <<>> THEN 0
    ELSE LET e == es[Len(es)].entry
         IN  IF e.EventType = op /\ e.RuleCount > 0 THEN e.RuleCount
             ELSE LastPositive(SubSeq(es, 1, Len(es) - 1), op)

\* C23 as stated: the six families end the same in whatever order the
\* OnAfterEvent calls on a set of active entries are made.
C23_EveryOrderSameMetrics ==
    \A p \in Orders(Len(recorded)) :
        Replay(StartMetrics, Reorder(recorded, p)) = Metrics

\* C23, amended: in whatever order the OnAfterEvent calls on a set of active
\* entries are made, the two counters, the two histograms and the policy-state
\* gauge end the same; the rule-count gauge of an operation ends at the
\* RuleCount of the entry recorded last among those of the operation that report
\* one, and so depends on the order.
C23_CountersAndHistogramsCommute ==
    \A p \in Orders(Len(recorded)) :
        LET es == Reorder(recorded, p)
            m == Replay(StartMetrics, es)
        IN  /\ \A f \in DOMAIN Metrics \ {"policyRulesCount"} : m[f] = Metrics[f]
            /\ DOMAIN m.policyRulesCount = DOMAIN policyRulesCount
            /\ \A op \in PolicyEventTypes :
                  CounterAt(m.policyRulesCount, <<op>>) = LastPositive(es, op)

C23_Witness ==
    /\ Len(recorded) = 2
    /\ recorded[1].entry.EventType = EventAddPolicy
    /\ recorded[2].entry.EventType = EventAddPolicy
    /\ recorded[1].entry.RuleCount = MaxCount
    /\ recorded[2].entry.RuleCount = 1
    /\ recorded[1].entry.StartTime # recorded[2].entry.StartTime
    /\ CounterAt(policyRulesCount, <<EventAddPolicy>>) = 1
    /\ ObservationsAt(policyOpsDuration, <<EventAddPolicy>>) = 2

\* the registry the last constructor or unregistering call worked on
TargetRegistry == IF last.op = "Unregister" THEN "default" ELSE last.arg[1]

\* the names the last call registered on its registry, and those it removed
AddedNames ==
    registries[TargetRegistry].collectorsByID \
        Pre.registries[TargetRegistry].collectorsByID

RemovedNames ==
    Pre.registries[TargetRegistry].collectorsByID \
        registries[TargetRegistry].collectorsByID

\* C21 as stated: a constructor call, returning or panicking, registers all six
\* families of its recorder or none, and after Unregister or UnregisterFrom
\* the registry holds all six families of the recorder or none.
C21_AllSixOrNone ==
    /\ last.op = "NewPrometheusLoggerWithOptions" => AddedNames \in {{}, FamilyNames}
    /\ last.op \in {"Unregister", "UnregisterFrom"} =>
          own[TargetRegistry] \in {{}, FamilyNames}

\* C22 as stated: Unregister and UnregisterFrom remove only families that the
\* recorder they are called on registered, and a constructor call removes none
\* and leaves the other registry as it was.
C22_OnlyOwnFamilies ==
    /\ last.op \in {"Unregister", "UnregisterFrom"} =>
          /\ RemovedNames \subseteq Pre.own[TargetRegistry]
          /\ AddedNames = {}
    /\ last.op = "NewPrometheusLoggerWithOptions" =>
          /\ RemovedNames = {}
          /\ \A id \in RegistryIds \ {TargetRegistry} :
                registries[id] = Pre.registries[id]

\* the sum of the values of a counter family over its series
RECURSIVE Total(_)
Total(vec) ==
    IF DOMAIN vec = {} THEN 0
    ELSE LET lv == CHOOSE k \in DOMAIN vec : TRUE
         IN  vec[lv] + Total([k \in DOMAIN vec \ {lv} |-> vec[k]])

\* the number of observations of a histogram family over its series
TotalObservations(vec) == Total([lv \in DOMAIN vec |-> vec[lv].count])

\* no OnAfterEvent call is between its first and its last statement
Quiescent == \A g \in Goroutines : running[g].pc \in {"idle", "returned"}

\* the goroutines whose OnAfterEvent call on an active entry of one of the
\* event types has returned
Returned(types) ==
    {g \in Goroutines : /\ running[g].pc = "returned"
                        /\ running[g].given.IsActive
                        /\ running[g].given.EventType \in types}

\* C24: when OnAfterEvent calls on distinct active entries run on several
\* goroutines, interleaved in any way and with no call that reconfigures the
\* recorder, then once all have returned the enforce counter summed over its
\* series and the number of observations of the enforce histogram both equal
\* the number of enforce entries, and the policy-operation counter and
\* histogram both equal the number of policy entries.
C24_NoUpdateLost ==
    Quiescent =>
        /\ Total(enforceTotal) = Cardinality(Returned({EventEnforce}))
        /\ TotalObservations(enforceDuration) = Cardinality(Returned({EventEnforce}))
        /\ Total(policyOpsTotal) = Cardinality(Returned(PolicyEventTypes))
        /\ TotalObservations(policyOpsDuration) =
              Cardinality(Returned(PolicyEventTypes))

C24_Witness ==
    /\ \A g \in Goroutines : running[g].pc = "returned"
    /\ Returned({EventEnforce}) = Goroutines
    /\ Cardinality(DOMAIN enforceTotal) = 1
    /\ Total(enforceTotal) = MaxEvents

\* C29 as stated: in every state, between the two updates of an OnAfterEvent
\* call included, the enforce histogram has at each label vector no more
\* observations than the enforce counter counts.
C29_CounterBeforeHistogram ==
    \A lv \in DOMAIN enforceDuration \cup DOMAIN enforceTotal :
        ObservationsAt(enforceDuration, lv) <= CounterAt(enforceTotal, lv)

\* C30: while no OnAfterEvent call is in progress, the enforce counter equals
\* the number of observations of the enforce histogram at every label vector,
\* and for every policy operation the counter at success "true" plus the
\* counter at success "false" equals the number of observations of the
\* policy-operation histogram.
C30_CounterHistogramPaired ==
    Quiescent =>
        /\ \A lv \in DOMAIN enforceDuration \cup DOMAIN enforceTotal :
              CounterAt(enforceTotal, lv) = ObservationsAt(enforceDuration, lv)
        /\ \A op \in PolicyEventTypes :
              CounterAt(policyOpsTotal, <<op, "true">>) +
              CounterAt(policyOpsTotal, <<op, "false">>) =
                  ObservationsAt(policyOpsDuration, <<op>>)

C30_Witness ==
    /\ \A g \in Goroutines : running[g].pc = "returned"
    /\ CounterAt(policyOpsTotal, <<EventAddPolicy, "true">>) = 1
    /\ CounterAt(policyOpsTotal, <<EventAddPolicy, "false">>) >= 1
    /\ ObservationsAt(policyOpsDuration, <<EventAddPolicy>>) = MaxEvents

\* C33: an event type outside the five constants is admitted by OnBeforeEvent
\* when no event type is enabled; OnAfterEvent on an active entry of such a
\* type changes no series of the six families, sets EndTime and Duration, and
\* invokes the callback when one is set, returning what it returns.
C33_UnknownEventTypeNotRecorded ==
    /\ ( /\ last.op = "OnBeforeEvent"
         /\ Pre.enabledEventTypes = {}
         /\ entry.EventType \notin {EventEnforce} \cup PolicyEventTypes )
       => entry.IsActive
    /\ (AfterActive /\ entry.EventType \notin {EventEnforce} \cup PolicyEventTypes) =>
          /\ Metrics = Pre.metrics
          /\ entry.EndTime = now
          /\ entry.Duration = Sub(now, Pre.entry.StartTime)
          /\ IF callback = NoCallback
             THEN last.cb = <<>> /\ last.ret = "nil"
             ELSE /\ Len(last.cb) = 1
                  /\ last.cb[1].entry = entry
                  /\ last.ret = callback

C33_Witness ==
    /\ AfterActive
    /\ entry.EventType = EventCustom
    /\ admitted = "yes"
    /\ callback = "other error"
    /\ last.ret = "other error"
    /\ entry.Duration > 0
    /\ Metrics = [f \in DOMAIN Metrics |-> EmptyVec]

\* C35: in every state each series of the policy-operation counter has as
\* label values one of the four policy event types and "true" or "false";
\* none has the enforce event type, and there are at most eight series.
C35_PolicyCounterKeys ==
    /\ \A lv \in DOMAIN policyOpsTotal :
          /\ Len(lv) = 2
          /\ lv[1] \in PolicyEventTypes
          /\ lv[1] # EventEnforce
          /\ lv[2] \in {"true", "false"}
    /\ Cardinality(DOMAIN policyOpsTotal) <= 8

C35_Witness ==
    /\ AfterActive
    /\ entry.EventType = EventEnforce
    /\ DOMAIN policyOpsTotal = {<<EventAddPolicy, "false">>}
    /\ CounterAt(enforceTotal, <<"true", "domain1">>) = 1

C31_OnlyTargetRegistry ==
    /\ last.op = "NewPrometheusLoggerWithOptions" =>
          /\ \A id \in RegistryIds \ {last.arg[1]} :
                registries[id] = Pre.registries[id]
          /\ last.ret = "logger" =>
                /\ AddedNames = FamilyNames
                /\ Held(last.arg[1]) = FamilyNames
    /\ last.op = "Unregister" =>
          /\ registries["custom"] = Pre.registries["custom"]
          /\ Held("default") = {}

\* Unregister called on a recorder built on the caller's registry, the default
\* registry never having been used
C31_Witness ==
    /\ last.op = "Unregister"
    /\ registries["default"] = EmptyRegistry
    /\ Held("custom") = FamilyNames
    /\ enforceLabels = <<"allowed", "domain", "subject">>
    /\ policyStateCount # EmptyVec

\* the calls on the recorder held that leave it the recorder held
CallsOnRecorder ==
    {"OnBeforeEvent", "OnAfterEvent", "UpdatePolicyState", "SetEventTypes",
     "SetLogCallback", "Unregister", "UnregisterFrom"}

\* the caller keeps a recorder built on another registry than the one held
PeerOnOtherRegistry == peer.exists /\ peer.target # target

\* C32 as stated: a hook, UpdatePolicyState, setter or unregistering call on a
\* recorder changes no series, enabled set, callback or registered family of a
\* recorder built on another registry.
C32_OtherRecorderUntouched ==
    (PeerOnOtherRegistry /\ last.op \in CallsOnRecorder) => peer = Pre.peer

====
